---- MODULE Spec2Model ----
(***************************************************************************)
(* Model of the artisan-ai-assistant services:                             *)
(*   src/src/services/image_service.py  (ImageProcessor)                   *)
(*   src/src/services/ai_service.py     (AIService)                        *)
(*   src/src/ui/image_components.py     (render_image_processing)          *)
(*                                                                         *)
(* An image is a record [size, mode, px]: px is the history of the         *)
(* library operations that produced the pixel content from the source      *)
(* picture, so two images have the same content iff they have the same     *)
(* history.  Text is a sequence of Unicode code points.                    *)
(***************************************************************************)
EXTENDS Integers, Sequences, FiniteSets, TLC

VARIABLES
    rembg_session,   \* ImageProcessor.rembg_session is usable (REMBG_AVAILABLE and session)
    model,           \* AIService.model is not None
    op,              \* entry point of the call in progress, "idle" between calls
    args,            \* arguments and environment outcomes of that call
    ret,             \* value returned by that call
    session,         \* st.session_state: [processing_timestamp]
    files,           \* processed_images directory: path -> number of times it was written
    caller_image,    \* the image object the caller passed, as it is after the call
    threads,         \* script threads inside image_processor.remove_background
    main             \* the run of app.main: [pc, config, directories]

vars == <<rembg_session, model, op, args, ret, session, files, caller_image, threads, main>>

(***************************************************************************)
(* Arithmetic helpers                                                      *)
(***************************************************************************)
Max(a, b) == IF a >= b THEN a ELSE b

Min(a, b) == IF a <= b THEN a ELSE b

AbsDiff(a, b) == IF a >= b THEN a - b ELSE b - a

CeilDiv(a, b) == (a + b - 1) \div b

(***************************************************************************)
(* Config (src/src/config/settings.py)                                     *)
(***************************************************************************)
AMAZON_IMAGE_SIZE == 1000

INSTAGRAM_IMAGE_SIZE == 1080

WHATSAPP_IMAGE_SIZE == 640

PLATFORM_SIZES ==
    [amazon    |-> <<AMAZON_IMAGE_SIZE, AMAZON_IMAGE_SIZE>>,
     instagram |-> <<INSTAGRAM_IMAGE_SIZE, INSTAGRAM_IMAGE_SIZE>>,
     whatsapp  |-> <<WHATSAPP_IMAGE_SIZE, WHATSAPP_IMAGE_SIZE>>]

Platforms == DOMAIN PLATFORM_SIZES

\* Config.PLATFORM_SIZES.get(platform, (1000, 1000))
PlatformSizeGet(platform) ==
    IF platform \in DOMAIN PLATFORM_SIZES THEN PLATFORM_SIZES[platform]
    ELSE <<1000, 1000>>

(***************************************************************************)
(* Images                                                                  *)
(***************************************************************************)
Img(size, mode, px) == [size |-> size, mode |-> mode, px |-> px]

\* one entry of a content history: the operation and its two parameters
PxOp(name, a, b) == [name |-> name, a |-> a, b |-> b]

\* The library calls of one request that can raise.
FaultPoints ==
    {"copy", "rembg", "compose", "convert", "brightness", "contrast",
     "sharpen", "thumbnail", "canvas", "resize"}

\* PIL Image.thumbnail(size): the size the image object has afterwards.
\* It never enlarges: an image that already fits keeps its size; otherwise
\* one side is set to the box side and the other is the floor or ceiling of
\* the aspect-preserving length, whichever is closer in aspect, at least 1.
ThumbnailSize(srcsize, box) ==
    LET w == srcsize[1]
        h == srcsize[2]
        x == box[1]
        y == box[2]
    IN  IF x >= w /\ y >= h THEN srcsize
        ELSE IF x * h >= w * y
             THEN LET f == (y * w) \div h
                      c == CeilDiv(y * w, h)
                      n == IF AbsDiff(w * y, f * h) <= AbsDiff(w * y, c * h)
                           THEN f ELSE c
                  IN  <<Max(n, 1), y>>
             ELSE LET f == (x * h) \div w
                      c == CeilDiv(x * h, w)
                      n == IF f = 0 \/ AbsDiff(w * f, x * h) * c <= AbsDiff(w * c, x * h) * f
                           THEN f ELSE c
                  IN  <<x, Max(n, 1)>>

\* image.thumbnail(size, LANCZOS): the image object after the in-place call
Thumbnail(image, box) ==
    LET ts == ThumbnailSize(image.size, box)
    IN  IF ts = image.size THEN image
        ELSE Img(ts, image.mode, Append(image.px, PxOp("thumbnail", ts[1], ts[2])))

\* new_image.paste(image, (x, y)) on the white canvas of the target size: the
\* content of the canvas afterwards.  An opaque RGB image as large as the
\* canvas replaces every pixel, so the canvas has the content of the image.
PasteOnCanvas(t, size, x, y) ==
    IF t.size = size /\ t.mode = "RGB" THEN t.px
    ELSE Append(t.px, PxOp("paste", x, y))

\* image.resize(size, LANCZOS): a resize to the image's own size is a copy
ResizeTo(image, size) ==
    IF image.size = size THEN image
    ELSE Img(size, image.mode, Append(image.px, PxOp("resize", size[1], size[2])))

\* resize_image whose canvas has the mode of the picture instead of RGB
resize_image_mode_canvas(image, size, maintain_aspect, F) ==
    IF maintain_aspect
    THEN IF "thumbnail" \in F THEN [ret |-> image, arg |-> image]
         ELSE LET t == Thumbnail(image, size)
                  x == (size[1] - t.size[1]) \div 2
                  y == (size[2] - t.size[2]) \div 2
              IN  IF "canvas" \in F THEN [ret |-> t, arg |-> t]
                  ELSE [ret |-> Img(size, t.mode, PasteOnCanvas(t, size, x, y)),
                        arg |-> t]
    ELSE IF "resize" \in F THEN [ret |-> image, arg |-> image]
         ELSE [ret |-> ResizeTo(image, size), arg |-> image]

\* resize_image that pastes at the full difference instead of half of it
resize_image_corner(image, size, maintain_aspect, F) ==
    IF maintain_aspect
    THEN IF "thumbnail" \in F THEN [ret |-> image, arg |-> image]
         ELSE LET t == Thumbnail(image, size)
                  x == size[1] - t.size[1]
                  y == size[2] - t.size[2]
              IN  IF "canvas" \in F THEN [ret |-> t, arg |-> t]
                  ELSE [ret |-> Img(size, "RGB", PasteOnCanvas(t, size, x, y)),
                        arg |-> t]
    ELSE IF "resize" \in F THEN [ret |-> image, arg |-> image]
         ELSE [ret |-> ResizeTo(image, size), arg |-> image]

\* resize_image that fits the picture into a box two pixels smaller than the
\* canvas
resize_image_margin(image, size, maintain_aspect, F) ==
    IF maintain_aspect
    THEN IF "thumbnail" \in F THEN [ret |-> image, arg |-> image]
         ELSE LET t == Thumbnail(image, <<size[1] - 2, size[2] - 2>>)
                  x == (size[1] - t.size[1]) \div 2
                  y == (size[2] - t.size[2]) \div 2
              IN  IF "canvas" \in F THEN [ret |-> t, arg |-> t]
                  ELSE [ret |-> Img(size, "RGB", PasteOnCanvas(t, size, x, y)),
                        arg |-> t]
    ELSE IF "resize" \in F THEN [ret |-> image, arg |-> image]
         ELSE [ret |-> ResizeTo(image, size), arg |-> image]

\* resize_image whose canvas is one pixel too wide and too high
resize_image_wide_canvas(image, size, maintain_aspect, F) ==
    IF maintain_aspect
    THEN IF "thumbnail" \in F THEN [ret |-> image, arg |-> image]
         ELSE LET t == Thumbnail(image, size)
                  canvas == <<size[1] + 1, size[2] + 1>>
                  x == (canvas[1] - t.size[1]) \div 2
                  y == (canvas[2] - t.size[2]) \div 2
              IN  IF "canvas" \in F THEN [ret |-> t, arg |-> t]
                  ELSE [ret |-> Img(canvas, "RGB", PasteOnCanvas(t, canvas, x, y)),
                        arg |-> t]
    ELSE IF "resize" \in F THEN [ret |-> image, arg |-> image]
         ELSE [ret |-> ResizeTo(image, size), arg |-> image]

\* ImageProcessor.resize_image.  ret is the returned image, arg is the
\* caller's image object as it is after the call (thumbnail works in place).
resize_image(image, size, maintain_aspect, F) ==
    IF maintain_aspect
    THEN IF "thumbnail" \in F THEN [ret |-> image, arg |-> image]
         ELSE LET t == Thumbnail(image, size)
                  x == (size[1] - t.size[1]) \div 2
                  y == (size[2] - t.size[2]) \div 2
              IN  IF "canvas" \in F THEN [ret |-> t, arg |-> t]
                  ELSE [ret |-> Img(size, "RGB", PasteOnCanvas(t, size, x, y)),
                        arg |-> t]
    ELSE IF "resize" \in F THEN [ret |-> image, arg |-> image]
         ELSE [ret |-> ResizeTo(image, size), arg |-> image]

\* ImageProcessor.remove_background
remove_background(image, session_ok, F) ==
    IF ~session_ok THEN image
    ELSE IF "rembg" \in F THEN image
    ELSE Img(image.size, "RGBA", Append(image.px, PxOp("rembg", 0, 0)))

\* ImageProcessor.is_available; cv2_ok is CV2_AVAILABLE
is_available(session_ok, cv2_ok) ==
    [background_removal |-> session_ok, opencv |-> cv2_ok, basic_processing |-> TRUE]

\* image.convert('RGB'): a same-mode conversion is a plain copy
ConvertRGB(image) ==
    IF image.mode = "RGB" THEN image
    ELSE Img(image.size, "RGB", Append(image.px, PxOp("convert", 0, 0)))

\* ImageProcessor.add_white_background.  raised: the exception of the
\* handler's own image.convert('RGB') leaves the method.  The fault
\* "compose" is a raise of Image.new or of the paste on the white canvas.
add_white_background(image, F) ==
    LET handler == IF "convert" \in F THEN [raised |-> TRUE, ret |-> image]
                   ELSE [raised |-> FALSE, ret |-> ConvertRGB(image)]
    IN  IF "compose" \in F THEN handler
        ELSE IF image.mode = "RGBA"
        THEN [raised |-> FALSE,
              ret |-> Img(image.size, "RGB", Append(image.px, PxOp("white", 0, 0)))]
        ELSE IF image.mode # "RGB"
             THEN IF "convert" \in F THEN handler
                  ELSE [raised |-> FALSE, ret |-> ConvertRGB(image)]
             ELSE [raised |-> FALSE, ret |-> image]

\* ImageEnhance.Brightness(...).enhance blends the image with a black image
\* of the same mode; the blend rejects palette images.
BrightnessRaises(image, F) == "brightness" \in F \/ image.mode = "P"

\* enhance_image that resizes first and enhances the resized image
enhance_image_resize_first(image, platform, F) ==
    LET target_size == PlatformSizeGet(platform)
        resized == resize_image(image, target_size, TRUE, F).ret
    IN  IF BrightnessRaises(image, F) \/ "contrast" \in F \/ "sharpen" \in F
        THEN image
        ELSE Img(resized.size, resized.mode,
                 resized.px \o <<PxOp("brightness", 105, 100),
                                 PxOp("contrast", 110, 100),
                                 PxOp("unsharp", 1, 150)>>)

\* ImageProcessor.enhance_image
enhance_image(image, platform, F) ==
    LET target_size == PlatformSizeGet(platform)
        sharpened == Img(image.size, image.mode,
                         image.px \o <<PxOp("brightness", 105, 100),
                                       PxOp("contrast", 110, 100),
                                       PxOp("unsharp", 1, 150)>>)
    IN  IF BrightnessRaises(image, F) \/ "contrast" \in F \/ "sharpen" \in F
        THEN image
        ELSE resize_image(sharpened, target_size, TRUE, F).ret

\* the dictionary of the except branch of process_for_platform
ProcessFailure(image, platform, emsg) ==
    [success |-> FALSE, error |-> emsg, image |-> image, platform |-> platform]

\* process_for_platform whose except branch returns the working image
process_for_platform_partial(image, platform, remove_bg, session_ok, F, emsg) ==
    IF "copy" \in F THEN ProcessFailure(image, platform, emsg)
    ELSE LET copied == image
             nobg == IF remove_bg THEN remove_background(copied, session_ok, F)
                     ELSE copied
             white == add_white_background(nobg, F)
         IN  IF platform = "amazon" /\ white.raised
             THEN ProcessFailure(nobg, platform, emsg)
             ELSE LET composed == IF platform = "amazon" THEN white.ret ELSE nobg
                      processed_image == enhance_image(composed, platform, F)
                  IN  [success |-> TRUE,
                       image |-> processed_image,
                       platform |-> platform,
                       size |-> processed_image.size,
                       background_removed |-> remove_bg,
                       format |-> IF processed_image.mode = "RGBA" THEN "PNG" ELSE "JPEG"]

\* process_for_platform without its try/except: the exception reaches the
\* caller and no dictionary is returned
process_for_platform_unguarded(image, platform, remove_bg, session_ok, F, emsg) ==
    IF "copy" \in F THEN [raised |-> emsg]
    ELSE LET copied == image
             nobg == IF remove_bg THEN remove_background(copied, session_ok, F)
                     ELSE copied
             white == add_white_background(nobg, F)
         IN  IF platform = "amazon" /\ white.raised
             THEN [raised |-> emsg]
             ELSE LET composed == IF platform = "amazon" THEN white.ret ELSE nobg
                      processed_image == enhance_image(composed, platform, F)
                  IN  [success |-> TRUE,
                       image |-> processed_image,
                       platform |-> platform,
                       size |-> processed_image.size,
                       background_removed |-> remove_bg,
                       format |-> IF processed_image.mode = "RGBA" THEN "PNG" ELSE "JPEG"]

\* ImageProcessor.process_for_platform
process_for_platform(image, platform, remove_bg, session_ok, F, emsg) ==
    IF "copy" \in F THEN ProcessFailure(image, platform, emsg)
    ELSE LET copied == image
             nobg == IF remove_bg THEN remove_background(copied, session_ok, F)
                     ELSE copied
             white == add_white_background(nobg, F)
         IN  IF platform = "amazon" /\ white.raised
             THEN ProcessFailure(image, platform, emsg)
             ELSE LET composed == IF platform = "amazon" THEN white.ret ELSE nobg
                      processed_image == enhance_image(composed, platform, F)
                  IN  [success |-> TRUE,
                       image |-> processed_image,
                       platform |-> platform,
                       size |-> processed_image.size,
                       background_removed |-> remove_bg,
                       format |-> IF processed_image.mode = "RGBA" THEN "PNG" ELSE "JPEG"]

(***************************************************************************)
(* Object identity: which object the in-place thumbnail of resize_image    *)
(* works on.  A stage result is "same" when the returned object is the     *)
(* very object the stage was given.                                        *)
(***************************************************************************)
\* remove_background returns its argument when rembg is unavailable or fails
remove_background_same(image, session_ok, F) == ~session_ok \/ "rembg" \in F

\* add_white_background returns its argument when it is RGB already
\* (white_bg = image); the canvas and image.convert are new objects
add_white_background_same(image, F) == "compose" \notin F /\ image.mode = "RGB"

\* whether image.copy() returns the object it is called on: it is a new one
COPY_SAME == FALSE

\* whether ImageEnhance.Brightness(image).enhance(...) returns the object it
\* was given: Image.blend builds a new one
ENHANCE_SAME == FALSE

\* the object handed to enhance_image as it is after the call: resize_image
\* is called on the object the sharpen filter returned
enhance_image_arg(image, platform, F) ==
    IF BrightnessRaises(image, F) \/ "contrast" \in F \/ "sharpen" \in F
    THEN image
    ELSE IF ENHANCE_SAME
         THEN resize_image(image, PlatformSizeGet(platform), TRUE, F).arg
         ELSE image

\* process_for_platform that works on the caller's object and resizes it
\* before the enhancement
process_for_platform_arg_in_place(image, platform, remove_bg, session_ok, F) ==
    IF "copy" \in F THEN image
    ELSE IF (remove_bg /\ ~remove_background_same(image, session_ok, F))
            \/ (platform = "amazon" /\ ~add_white_background_same(image, F))
         THEN image
         ELSE resize_image(image, PlatformSizeGet(platform), TRUE, F).arg

\* the caller's image object as it is after process_for_platform: a stage
\* can change it only while the working object is still the caller's own
process_for_platform_arg(image, platform, remove_bg, session_ok, F) ==
    IF "copy" \in F THEN image
    ELSE IF \/ ~COPY_SAME
            \/ (remove_bg /\ ~remove_background_same(image, session_ok, F))
            \/ (platform = "amazon" /\ ~add_white_background_same(image, F))
            \/ (platform = "amazon" /\ add_white_background(image, F).raised)
         THEN image
         ELSE enhance_image_arg(image, platform, F)

(***************************************************************************)
(* Literals of ai_service.py                                               *)
(***************************************************************************)
\* fallback_captions (ai_service.py:168-220), text as code points
fallback_amazon_hi ==
    [caption |->
        <<2361, 2360, 2381, 2340, 2344, 2367, 2352, 2381, 2350, 2367, 2340,
        32, 2313, 2340, 2381, 2346, 2366, 2342, 32, 45, 32, 2346, 2366, 2352,
        2306, 2346, 2352, 2367, 2325, 32, 2325, 2366, 2352, 2368, 2327, 2352,
        2368, 32, 2325, 2366, 32, 2309, 2344, 2369, 2346, 2350, 32, 2344,
        2350, 2370, 2344, 2366>>,
     hashtags |-> <<
        <<35, 2361, 2360, 2381, 2340, 2344, 2367, 2352, 2381, 2350, 2367,
        2340>>,
        <<35, 2346, 2366, 2352, 2306, 2346, 2352, 2367, 2325>>,
        <<35, 2325, 2366, 2352, 2368, 2327, 2352, 2368>>,
        <<35, 2349, 2366, 2352, 2340, 2368, 2351>>,
        <<35, 2361, 2360, 2381, 2340, 2358, 2367, 2354, 2381, 2346>>>>,
     description |->
        <<2360, 2381, 2341, 2366, 2344, 2368, 2351, 32, 2325, 2366, 2352,
        2368, 2327, 2352, 2379, 2306, 32, 2342, 2381, 2357, 2366, 2352, 2366,
        32, 2346, 2381, 2352, 2375, 2350, 32, 2360, 2375, 32, 2348, 2344,
        2366, 2351, 2366, 32, 2327, 2351, 2366, 32, 2351, 2361, 32, 2313,
        2340, 2381, 2346, 2366, 2342, 32, 2310, 2346, 2325, 2375, 32, 2328,
        2352, 32, 2325, 2368, 32, 2358, 2379, 2349, 2366, 32, 2348, 2338,
        2364, 2366, 2319, 2327, 2366, 2404>>]

fallback_amazon_mr ==
    [caption |->
        <<2361, 2360, 2381, 2340, 2344, 2367, 2352, 2381, 2350, 2367, 2340,
        32, 2313, 2340, 2381, 2346, 2366, 2342, 2344, 32, 45, 32, 2346, 2366,
        2352, 2306, 2346, 2352, 2367, 2325, 32, 2325, 2366, 2352, 2366, 2327,
        2367, 2352, 2368, 2330, 2366, 32, 2309, 2344, 2369, 2346, 2350, 32,
        2344, 2350, 2369, 2344, 2366>>,
     hashtags |-> <<
        <<35, 2361, 2360, 2381, 2340, 2344, 2367, 2352, 2381, 2350, 2367,
        2340>>,
        <<35, 2346, 2366, 2352, 2306, 2346, 2352, 2367, 2325>>,
        <<35, 2325, 2366, 2352, 2366, 2327, 2367, 2352, 2368>>,
        <<35, 2349, 2366, 2352, 2340, 2368, 2351>>,
        <<35, 2361, 2360, 2381, 2340, 2325, 2354, 2366>>>>,
     description |->
        <<2360, 2381, 2341, 2366, 2344, 2367, 2325, 32, 2325, 2366, 2352,
        2366, 2327, 2367, 2352, 2366, 2306, 2344, 2368, 32, 2346, 2381, 2352,
        2375, 2350, 2366, 2344, 2375, 32, 2348, 2344, 2357, 2354, 2375, 2354,
        2375, 32, 2361, 2375, 32, 2313, 2340, 2381, 2346, 2366, 2342, 2344,
        32, 2340, 2369, 2350, 2330, 2381, 2351, 2366, 32, 2328, 2352, 2366,
        2330, 2368, 32, 2358, 2379, 2349, 2366, 32, 2357, 2366, 2338, 2357,
        2375, 2354, 2404>>]

fallback_amazon_en ==
    [caption |->
        <<72, 97, 110, 100, 109, 97, 100, 101, 32, 80, 114, 111, 100, 117,
        99, 116, 32, 45, 32, 69, 120, 113, 117, 105, 115, 105, 116, 101, 32,
        84, 114, 97, 100, 105, 116, 105, 111, 110, 97, 108, 32, 67, 114, 97,
        102, 116, 115, 109, 97, 110, 115, 104, 105, 112>>,
     hashtags |-> <<
        <<35, 104, 97, 110, 100, 109, 97, 100, 101>>,
        <<35, 116, 114, 97, 100, 105, 116, 105, 111, 110, 97, 108>>,
        <<35, 99, 114, 97, 102, 116, 115, 109, 97, 110, 115, 104, 105, 112>>,
        <<35, 105, 110, 100, 105, 97, 110>>,
        <<35, 97, 114, 116, 105, 115, 97, 110>>>>,
     description |->
        <<76, 111, 118, 105, 110, 103, 108, 121, 32, 99, 114, 97, 102, 116,
        101, 100, 32, 98, 121, 32, 108, 111, 99, 97, 108, 32, 97, 114, 116,
        105, 115, 97, 110, 115, 44, 32, 116, 104, 105, 115, 32, 112, 114,
        111, 100, 117, 99, 116, 32, 119, 105, 108, 108, 32, 101, 110, 104,
        97, 110, 99, 101, 32, 121, 111, 117, 114, 32, 104, 111, 109, 101, 32,
        100, 233, 99, 111, 114, 46>>]

fallback_instagram_hi ==
    [caption |->
        <<10024, 32, 2361, 2366, 2341, 2379, 2306, 32, 2325, 2368, 32, 2325,
        2354, 2366, 2325, 2366, 2352, 2368, 32, 2325, 2366, 32, 2332, 2366,
        2342, 2370, 32, 10024, 10, 10, 35, 2325, 2366, 2352, 2368, 2327,
        2352, 2368, 32, 35, 2361, 2360, 2381, 2340, 2344, 2367, 2352, 2381,
        2350, 2367, 2340, 32, 35, 2349, 2366, 2352, 2340, 2368, 2351, 2325,
        2354, 2366>>,
     hashtags |-> <<
        <<35, 2325, 2366, 2352, 2368, 2327, 2352, 2368>>,
        <<35, 2361, 2360, 2381, 2340, 2344, 2367, 2352, 2381, 2350, 2367,
        2340>>,
        <<35, 2349, 2366, 2352, 2340, 2368, 2351, 2325, 2354, 2366>>,
        <<35, 2346, 2352, 2306, 2346, 2352, 2366>>,
        <<35, 2361, 2360, 2381, 2340, 2358, 2367, 2354, 2381, 2346>>>>,
     description |->
        <<2346, 2366, 2352, 2306, 2346, 2352, 2367, 2325, 32, 2325, 2354,
        2366, 32, 2325, 2366, 32, 2310, 2343, 2369, 2344, 2367, 2325, 32,
        2352, 2370, 2346>>]

fallback_instagram_mr ==
    [caption |->
        <<10024, 32, 2361, 2366, 2340, 2366, 2306, 2330, 2381, 2351, 2366,
        32, 2325, 2354, 2366, 2325, 2366, 2352, 2368, 2330, 2366, 32, 2332,
        2366, 2342, 2370, 32, 10024, 10, 10, 35, 2325, 2366, 2352, 2366,
        2327, 2367, 2352, 2368, 32, 35, 2361, 2360, 2381, 2340, 2344, 2367,
        2352, 2381, 2350, 2367, 2340, 32, 35, 2349, 2366, 2352, 2340, 2368,
        2351, 2325, 2354, 2366>>,
     hashtags |-> <<
        <<35, 2325, 2366, 2352, 2366, 2327, 2367, 2352, 2368>>,
        <<35, 2361, 2360, 2381, 2340, 2344, 2367, 2352, 2381, 2350, 2367,
        2340>>,
        <<35, 2349, 2366, 2352, 2340, 2368, 2351, 2325, 2354, 2366>>,
        <<35, 2346, 2352, 2306, 2346, 2352, 2366>>,
        <<35, 2361, 2360, 2381, 2340, 2325, 2354, 2366>>>>,
     description |->
        <<2346, 2366, 2352, 2306, 2346, 2352, 2367, 2325, 32, 2325, 2354,
        2375, 2330, 2375, 32, 2310, 2343, 2369, 2344, 2367, 2325, 32, 2352,
        2370, 2346>>]

fallback_instagram_en ==
    [caption |->
        <<10024, 32, 77, 97, 103, 105, 99, 32, 111, 102, 32, 104, 97, 110,
        100, 99, 114, 97, 102, 116, 101, 100, 32, 97, 114, 116, 105, 115,
        116, 114, 121, 32, 10024, 10, 10, 35, 97, 114, 116, 105, 115, 97,
        110, 32, 35, 104, 97, 110, 100, 109, 97, 100, 101, 32, 35, 105, 110,
        100, 105, 97, 110, 97, 114, 116>>,
     hashtags |-> <<
        <<35, 97, 114, 116, 105, 115, 97, 110>>,
        <<35, 104, 97, 110, 100, 109, 97, 100, 101>>,
        <<35, 105, 110, 100, 105, 97, 110, 97, 114, 116>>,
        <<35, 116, 114, 97, 100, 105, 116, 105, 111, 110, 97, 108>>,
        <<35, 99, 114, 97, 102, 116, 115>>>>,
     description |->
        <<84, 114, 97, 100, 105, 116, 105, 111, 110, 97, 108, 32, 97, 114,
        116, 32, 105, 110, 32, 109, 111, 100, 101, 114, 110, 32, 102, 111,
        114, 109>>]

fallback_whatsapp_hi ==
    [caption |->
        <<127912, 32, 2342, 2375, 2326, 2367, 2319, 32, 2350, 2375, 2352,
        2368, 32, 2344, 2312, 32, 2325, 2371, 2340, 2367, 33, 32, 2361, 2360,
        2381, 2340, 2344, 2367, 2352, 2381, 2350, 2367, 2340, 32, 2324, 2352,
        32, 2326, 2369, 2358, 2368, 32, 2360, 2375, 32, 2349, 2352, 2346,
        2370, 2352, 32, 10024>>,
     hashtags |-> <<
        <<35, 2361, 2360, 2381, 2340, 2344, 2367, 2352, 2381, 2350, 2367,
        2340>>,
        <<35, 2325, 2366, 2352, 2368, 2327, 2352, 2368>>,
        <<35, 2325, 2354, 2366>>>>,
     description |->
        <<2360, 2381, 2341, 2366, 2344, 2368, 2351, 32, 2325, 2366, 2352,
        2368, 2327, 2352, 32, 2325, 2366, 32, 2346, 2381, 2352, 2375, 2350>>]

fallback_whatsapp_mr ==
    [caption |->
        <<127912, 32, 2346, 2366, 2361, 2366, 32, 2350, 2366, 2333, 2368, 32,
        2344, 2357, 2368, 32, 2325, 2354, 2366, 2325, 2371, 2340, 2368, 33,
        32, 2361, 2360, 2381, 2340, 2344, 2367, 2352, 2381, 2350, 2367, 2340,
        32, 2310, 2339, 2367, 32, 2310, 2344, 2306, 2342, 2366, 2344, 2375,
        32, 2349, 2352, 2354, 2375, 2354, 2368, 32, 10024>>,
     hashtags |-> <<
        <<35, 2361, 2360, 2381, 2340, 2344, 2367, 2352, 2381, 2350, 2367,
        2340>>,
        <<35, 2325, 2366, 2352, 2366, 2327, 2367, 2352, 2368>>,
        <<35, 2325, 2354, 2366>>>>,
     description |->
        <<2360, 2381, 2341, 2366, 2344, 2367, 2325, 32, 2325, 2366, 2352,
        2366, 2327, 2367, 2352, 2366, 2330, 2375, 32, 2346, 2381, 2352, 2375,
        2350>>]

fallback_whatsapp_en ==
    [caption |->
        <<127912, 32, 67, 104, 101, 99, 107, 32, 111, 117, 116, 32, 109, 121,
        32, 110, 101, 119, 32, 99, 114, 101, 97, 116, 105, 111, 110, 33, 32,
        72, 97, 110, 100, 109, 97, 100, 101, 32, 119, 105, 116, 104, 32, 108,
        111, 118, 101, 32, 10024>>,
     hashtags |-> <<
        <<35, 104, 97, 110, 100, 109, 97, 100, 101>>,
        <<35, 97, 114, 116, 105, 115, 97, 110>>,
        <<35, 97, 114, 116>>>>,
     description |->
        <<77, 97, 100, 101, 32, 119, 105, 116, 104, 32, 97, 114, 116, 105,
        115, 97, 110, 32, 108, 111, 118, 101>>]

fallback_captions ==
    [amazon |-> [hi |-> fallback_amazon_hi, mr |-> fallback_amazon_mr, en |-> fallback_amazon_en],
     instagram |-> [hi |-> fallback_instagram_hi, mr |-> fallback_instagram_mr, en |-> fallback_instagram_en],
     whatsapp |-> [hi |-> fallback_whatsapp_hi, mr |-> fallback_whatsapp_mr, en |-> fallback_whatsapp_en]]

\* platform_keywords (ai_service.py:254-258), in dictionary order
platform_keywords ==
    [amazon |-> <<
        <<97, 109, 97, 122, 111, 110>>,
        <<2309, 2350, 2375, 2332, 2364, 2344>>,
        <<2309, 2350, 2375, 2333, 2344>>,
        <<115, 101, 108, 108, 105, 110, 103>>,
        <<115, 101, 108, 108>>,
        <<2357, 2367, 2325, 2381, 2352, 2368>>,
        <<2348, 2375, 2330, 2344, 2366>>>>,
     instagram |-> <<
        <<105, 110, 115, 116, 97, 103, 114, 97, 109>>,
        <<2311, 2306, 2360, 2381, 2335, 2366, 2327, 2381, 2352, 2366, 2350>>,
        <<105, 110, 115, 116, 97>>,
        <<2311, 2344, 2381, 2360, 2381, 2335, 2366>>,
        <<115, 111, 99, 105, 97, 108>>,
        <<2360, 2379, 2358, 2354>>>>,
     whatsapp |-> <<
        <<119, 104, 97, 116, 115, 97, 112, 112>>,
        <<2357, 2381, 2361, 2366, 2335, 2381, 2360, 2320, 2346>>,
        <<2357, 2381, 2361, 2366, 2335, 2381, 2360, 2309, 2346>>,
        <<115, 104, 97, 114, 101>>,
        <<2358, 2375, 2351, 2352>>,
        <<2349, 2375, 2332, 2344, 2366>>>>]

\* enhance_keywords (ai_service.py:266)
enhance_keywords ==
    <<<<101, 110, 104, 97, 110, 99, 101>>,
      <<105, 109, 112, 114, 111, 118, 101>>,
      <<2360, 2369, 2343, 2366, 2352>>,
      <<2348, 2375, 2361, 2340, 2352>>,
      <<98, 97, 99, 107, 103, 114, 111, 117, 110, 100>>,
      <<2348, 2376, 2325, 2327, 2381, 2352, 2366, 2313, 2306, 2337>>>>

\* 'CAPTION:'
CAPTION_PREFIX == <<67, 65, 80, 84, 73, 79, 78, 58>>

\* 'HASHTAGS:'
HASHTAGS_PREFIX == <<72, 65, 83, 72, 84, 65, 71, 83, 58>>

\* 'DESCRIPTION:'
DESCRIPTION_PREFIX == <<68, 69, 83, 67, 82, 73, 80, 84, 73, 79, 78, 58>>

\* '...'
ELLIPSIS == <<46, 46, 46>>

\* 'Selling'
w_Selling == <<83, 101, 108, 108, 105, 110, 103>>

\* 'INSTAGRAM'
w_INSTAGRAM == <<73, 78, 83, 84, 65, 71, 82, 65, 77>>

\* 'share'
w_share == <<115, 104, 97, 114, 101>>

\* 'Insta'
w_Insta == <<73, 110, 115, 116, 97>>

\* 'hello'
w_hello == <<104, 101, 108, 108, 111>>

\* 'Background'
w_Background == <<66, 97, 99, 107, 103, 114, 111, 117, 110, 100>>

\* 'whatsapp'
w_whatsapp == <<119, 104, 97, 116, 115, 97, 112, 112>>

\* keyword in Devanagari script
w_amazon_hi == <<2309, 2350, 2375, 2332, 2364, 2344>>

\* keyword in Devanagari script
w_share_hi == <<2358, 2375, 2351, 2352>>

\* keyword in Devanagari script
w_improve_hi == <<2360, 2369, 2343, 2366, 2352>>

\* 'remove background and make it for instagram'
t_scenario == <<114, 101, 109, 111, 118, 101, 32, 98, 97, 99, 107, 103, 114, 111, 117,
    110, 100, 32, 97, 110, 100, 32, 109, 97, 107, 101, 32, 105, 116, 32, 102,
    111, 114, 32, 105, 110, 115, 116, 97, 103, 114, 97, 109>>

\* 'Clay pot'
t_clay_pot == <<67, 108, 97, 121, 32, 112, 111, 116>>

t_caption_line == <<67, 65, 80, 84, 73, 79, 78, 58, 32, 67, 108, 97, 121, 32, 112, 111,
    116>>

t_caption_empty == <<67, 65, 80, 84, 73, 79, 78, 58>>

t_hashtags_line == <<72, 65, 83, 72, 84, 65, 71, 83, 58, 32, 35, 99, 108, 97, 121, 32, 35,
    112, 111, 116, 32, 104, 97, 110, 100, 109, 97, 100, 101>>

t_hashtags_plain == <<72, 65, 83, 72, 84, 65, 71, 83, 58, 32, 99, 108, 97, 121, 32, 112, 111,
    116>>

t_description_line == <<32, 32, 68, 69, 83, 67, 82, 73, 80, 84, 73, 79, 78, 58, 32, 65, 32,
    112, 111, 116, 46, 32, 32>>


(***************************************************************************)
(* Text operations of the Python str type, on code-point sequences         *)
(***************************************************************************)
\* the ASCII characters str.strip() and str.split() treat as white space
WHITESPACE == {9, 10, 11, 12, 13, 32}

NEWLINE == 10

HASH == 35

RECURSIVE LStrip(_)
LStrip(s) ==
    IF s = <<>> THEN s
    ELSE IF s[1] \in WHITESPACE THEN LStrip(Tail(s)) ELSE s

RECURSIVE RStrip(_)
RStrip(s) ==
    IF s = <<>> THEN s
    ELSE IF s[Len(s)] \in WHITESPACE THEN RStrip(SubSeq(s, 1, Len(s) - 1)) ELSE s

\* s.strip()
Strip(s) == RStrip(LStrip(s))

\* least index i >= from with (s[i] \in cs) = member, or 0
Find(s, cs, member, from) ==
    LET hits == {i \in from..Len(s) : (s[i] \in cs) = member}
    IN  IF hits = {} THEN 0 ELSE CHOOSE i \in hits : \A j \in hits : i <= j

RECURSIVE SplitLinesFrom(_, _)
SplitLinesFrom(s, from) ==
    LET j == Find(s, {NEWLINE}, TRUE, from)
    IN  IF j = 0 THEN <<SubSeq(s, from, Len(s))>>
        ELSE <<SubSeq(s, from, j - 1)>> \o SplitLinesFrom(s, j + 1)

\* s.split('\n')
SplitLines(s) == SplitLinesFrom(s, 1)

RECURSIVE SplitWordsFrom(_, _)
SplitWordsFrom(s, from) ==
    LET b == Find(s, WHITESPACE, FALSE, from)
    IN  IF b = 0 THEN <<>>
        ELSE LET e == Find(s, WHITESPACE, TRUE, b)
             IN  IF e = 0 THEN <<SubSeq(s, b, Len(s))>>
                 ELSE <<SubSeq(s, b, e - 1)>> \o SplitWordsFrom(s, e + 1)

\* s.split()
SplitWords(s) == SplitWordsFrom(s, 1)

\* s.startswith(p)
StartsWith(s, p) == Len(s) >= Len(p) /\ SubSeq(s, 1, Len(p)) = p

\* s.replace(p, '')
RECURSIVE Remove(_, _)
Remove(s, p) ==
    IF Len(s) < Len(p) THEN s
    ELSE IF SubSeq(s, 1, Len(p)) = p THEN Remove(SubSeq(s, Len(p) + 1, Len(s)), p)
    ELSE <<s[1]>> \o Remove(Tail(s), p)

\* s.lower(), for texts of ASCII and Devanagari (which has no case)
Lower(s) == [i \in 1..Len(s) |-> IF s[i] >= 65 /\ s[i] <= 90 THEN s[i] + 32 ELSE s[i]]

\* k in s
Contains(s, k) == \E i \in 1..(Len(s) - Len(k) + 1) : SubSeq(s, i, i + Len(k) - 1) = k

\* any(keyword in text for keyword in keywords)
AnyKeyword(text, keywords) == \E j \in 1..Len(keywords) : Contains(text, keywords[j])

\* result[key] = value on a dictionary
DictSet(d, key, value) == (key :> value) @@ d

(***************************************************************************)
(* AIService (src/src/services/ai_service.py)                              *)
(***************************************************************************)
SupportedLanguages == {"hi", "mr", "en"}

\* _fallback_caption whose language default is the platform's first row
_fallback_caption_first_row(platform, language, user_input) ==
    LET platform_data == IF platform \in DOMAIN fallback_captions
                         THEN fallback_captions[platform]
                         ELSE fallback_captions["amazon"]
        lang_data == IF language \in DOMAIN platform_data
                     THEN platform_data[language]
                     ELSE platform_data["hi"]
    IN  [success |-> TRUE,
         ai_generated |-> FALSE,
         caption |-> lang_data.caption,
         hashtags |-> lang_data.hashtags,
         description |-> lang_data.description,
         platform |-> platform,
         language |-> language,
         user_input |-> user_input]

\* AIService._fallback_caption
_fallback_caption(platform, language, user_input) ==
    LET platform_data == IF platform \in DOMAIN fallback_captions
                         THEN fallback_captions[platform]
                         ELSE fallback_captions["amazon"]
        lang_data == IF language \in DOMAIN platform_data
                     THEN platform_data[language]
                     ELSE platform_data["en"]
    IN  [success |-> TRUE,
         ai_generated |-> FALSE,
         caption |-> lang_data.caption,
         hashtags |-> lang_data.hashtags,
         description |-> lang_data.description,
         platform |-> platform,
         language |-> language,
         user_input |-> user_input]

\* length to which an unparsed response is cut for the caption
CAPTION_LIMIT == 200

\* RawCaption that cuts without marking the cut
RawCaption_plain_cut(response_text) ==
    IF Len(response_text) > CAPTION_LIMIT
    THEN SubSeq(response_text, 1, CAPTION_LIMIT)
    ELSE response_text

\* the caption used when no CAPTION: line gave one
RawCaption(response_text) ==
    IF Len(response_text) > CAPTION_LIMIT
    THEN SubSeq(response_text, 1, CAPTION_LIMIT) \o ELLIPSIS
    ELSE response_text

\* hashtags of a HASHTAGS: line
HashtagsOf(hashtag_text) ==
    SelectSeq(SplitWords(hashtag_text), LAMBDA tag : StartsWith(tag, <<HASH>>))

\* the loop of _parse_ai_response over the lines from index i on
RECURSIVE ParseLines(_, _, _)
ParseLines(lines, i, acc) ==
    IF i > Len(lines) THEN acc
    ELSE LET line == Strip(lines[i])
         IN  ParseLines(lines, i + 1,
                 IF StartsWith(line, CAPTION_PREFIX)
                 THEN [acc EXCEPT !.caption = Strip(Remove(line, CAPTION_PREFIX))]
                 ELSE IF StartsWith(line, HASHTAGS_PREFIX)
                 THEN [acc EXCEPT !.hashtags =
                           HashtagsOf(Strip(Remove(line, HASHTAGS_PREFIX)))]
                 ELSE IF StartsWith(line, DESCRIPTION_PREFIX)
                 THEN [acc EXCEPT !.description = Strip(Remove(line, DESCRIPTION_PREFIX))]
                 ELSE acc)

\* AIService._parse_ai_response
_parse_ai_response(response_text, platform, language, F) ==
    IF "parse" \in F THEN _fallback_caption(platform, language, <<>>)
    ELSE LET parsed == ParseLines(SplitLines(Strip(response_text)), 1,
                                  [caption |-> <<>>, hashtags |-> <<>>, description |-> <<>>])
         IN  [caption |-> IF parsed.caption = <<>> THEN RawCaption(response_text)
                          ELSE parsed.caption,
              hashtags |-> parsed.hashtags,
              description |-> parsed.description,
              platform |-> platform,
              language |-> language,
              full_response |-> response_text]

\* AIService._create_prompt indexes platform_requirements[platform][language]
\* and language_names[language]: a KeyError for any other value
CreatePromptRaises(platform, language) ==
    platform \notin Platforms \/ language \notin SupportedLanguages

\* AIService.generate_product_caption
generate_product_caption(platform, language, user_input, model_ok, response, F) ==
    IF ~model_ok THEN _fallback_caption(platform, language, user_input)
    ELSE IF \/ "encode" \in F
            \/ CreatePromptRaises(platform, language)
            \/ response.raises
         THEN _fallback_caption(platform, language, user_input)
         ELSE LET result == _parse_ai_response(response.text, platform, language, F)
              IN  DictSet(DictSet(result, "success", TRUE), "ai_generated", TRUE)

\* confidence values, in tenths
CONFIDENCE_KEYWORD == 8

CONFIDENCE_DEFAULT == 5

\* order in which platform_keywords.items() yields the platforms
PlatformOrder == <<"amazon", "instagram", "whatsapp">>

\* ScanPlatforms without the break: the last matching platform wins
RECURSIVE ScanPlatforms_no_break(_, _, _)
ScanPlatforms_no_break(voice_lower, i, platform) ==
    IF i > Len(PlatformOrder) THEN platform
    ELSE ScanPlatforms_no_break(voice_lower, i + 1,
             IF AnyKeyword(voice_lower, platform_keywords[PlatformOrder[i]])
             THEN PlatformOrder[i] ELSE platform)

\* the for loop with break over platform_keywords, from position i on
RECURSIVE ScanPlatforms(_, _, _)
ScanPlatforms(voice_lower, i, platform) ==
    IF i > Len(PlatformOrder) THEN platform
    ELSE IF AnyKeyword(voice_lower, platform_keywords[PlatformOrder[i]])
         THEN PlatformOrder[i]
         ELSE ScanPlatforms(voice_lower, i + 1, platform)

\* analyze_voice_command whose enhancement scan runs only when a platform
\* keyword matched
analyze_voice_command_joint_scan(voice_text, language, F) ==
    IF "lower" \in F
    THEN [platform |-> "amazon",
          remove_background |-> TRUE,
          original_text |-> voice_text,
          language |-> language,
          confidence |-> CONFIDENCE_DEFAULT]
    ELSE LET voice_lower == Lower(voice_text)
         IN  [platform |-> ScanPlatforms(voice_lower, 1, "amazon"),
              remove_background |->
                  /\ \E i \in 1..Len(PlatformOrder) :
                         AnyKeyword(voice_lower, platform_keywords[PlatformOrder[i]])
                  /\ AnyKeyword(voice_lower, enhance_keywords),
              original_text |-> voice_text,
              language |-> language,
              confidence |-> CONFIDENCE_KEYWORD]

\* analyze_voice_command whose except branch reports the keyword confidence
analyze_voice_command_flat_confidence(voice_text, language, F) ==
    LET voice_lower == Lower(voice_text)
    IN  [platform |-> IF "lower" \in F THEN "amazon"
                      ELSE ScanPlatforms(voice_lower, 1, "amazon"),
         remove_background |-> "lower" \in F \/ AnyKeyword(voice_lower, enhance_keywords),
         original_text |-> voice_text,
         language |-> language,
         confidence |-> CONFIDENCE_KEYWORD]

\* AIService.analyze_voice_command
analyze_voice_command(voice_text, language, F) ==
    IF "lower" \in F
    THEN [platform |-> "amazon",
          remove_background |-> TRUE,
          original_text |-> voice_text,
          language |-> language,
          confidence |-> CONFIDENCE_DEFAULT]
    ELSE LET voice_lower == Lower(voice_text)
         IN  [platform |-> ScanPlatforms(voice_lower, 1, "amazon"),
              remove_background |-> AnyKeyword(voice_lower, enhance_keywords),
              original_text |-> voice_text,
              language |-> language,
              confidence |-> CONFIDENCE_KEYWORD]

(***************************************************************************)
(* Upload validation (ImageProcessor.validate_image)                       *)
(***************************************************************************)
MAX_IMAGE_SIZE_MB == 10

\* bytes of a mebibyte: the divisor 1024 * 1024
MEBIBYTE == 1024 * 1024

\* 'jpg', 'jpeg', 'png', 'webp'
SUPPORTED_IMAGE_FORMATS ==
    <<<<106, 112, 103>>, <<106, 112, 101, 103>>, <<112, 110, 103>>,
      <<119, 101, 98, 112>>>>

\* 'JPEG'
f_JPEG == <<74, 80, 69, 71>>

\* 'PNG'
f_PNG == <<80, 78, 71>>

\* 'WEBP'
f_WEBP == <<87, 69, 66, 80>>

\* 'GIF'
f_GIF == <<71, 73, 70>>

\* 'MPO'
f_MPO == <<77, 80, 79>>

\* format_lower not in [fmt.lower() for fmt in Config.SUPPORTED_IMAGE_FORMATS]
FormatSupported(format) ==
    LET format_lower == IF format # <<>> THEN Lower(format) ELSE <<>>
    IN  \E i \in 1..Len(SUPPORTED_IMAGE_FORMATS) :
            Lower(SUPPORTED_IMAGE_FORMATS[i]) = format_lower

\* validate_image that refuses a file of exactly the limit and leaves the
\* file at its end
validate_image_strict(image_file) ==
    IF image_file.bytes >= MAX_IMAGE_SIZE_MB * MEBIBYTE
    THEN [result |-> [valid |-> FALSE, error |-> "File size exceeds limit"],
          pos |-> image_file.bytes]
    ELSE IF ~image_file.decodes
    THEN [result |-> [valid |-> FALSE, error |-> "Invalid image file"],
          pos |-> image_file.bytes]
    ELSE IF ~FormatSupported(image_file.format)
    THEN [result |-> [valid |-> FALSE, error |-> "Unsupported format"],
          pos |-> image_file.bytes]
    ELSE [result |-> [valid |-> TRUE,
                      image |-> Img(image_file.size, image_file.mode,
                                    <<PxOp("source", image_file.size[1],
                                           image_file.size[2])>>),
                      size |-> image_file.size,
                      format |-> image_file.format,
                      mode |-> image_file.mode,
                      file_size_mb |-> image_file.bytes],
          pos |-> image_file.bytes]

\* ImageProcessor.validate_image on a file read from its start.  result is
\* the returned dictionary (file_size_mb in bytes, the error by its fixed
\* part), pos is the read position after line 243: read() leaves it at the
\* end of the file and seek(0) puts it back.
validate_image(image_file) ==
    IF image_file.bytes > MAX_IMAGE_SIZE_MB * MEBIBYTE
    THEN [result |-> [valid |-> FALSE, error |-> "File size exceeds limit"],
          pos |-> 0]
    ELSE IF ~image_file.decodes
    THEN [result |-> [valid |-> FALSE, error |-> "Invalid image file"],
          pos |-> 0]
    ELSE IF ~FormatSupported(image_file.format)
    THEN [result |-> [valid |-> FALSE, error |-> "Unsupported format"],
          pos |-> 0]
    ELSE [result |-> [valid |-> TRUE,
                      image |-> Img(image_file.size, image_file.mode,
                                    <<PxOp("source", image_file.size[1],
                                           image_file.size[2])>>),
                      size |-> image_file.size,
                      format |-> image_file.format,
                      mode |-> image_file.mode,
                      file_size_mb |-> image_file.bytes],
          pos |-> 0]

(***************************************************************************)
(* File utilities and UI (src/src/utils/file_utils.py,                     *)
(* src/src/ui/image_components.py)                                         *)
(***************************************************************************)
PROCESSED_DIR == "processed_images"

\* image.save(filepath, format=...): the JPEG writer rejects images with an
\* alpha channel or a palette
SaveRaises(image, format, F) ==
    "write" \in F \/ (format = "JPEG" /\ image.mode \in {"RGBA", "P", "LA"})

\* save_processed_image: result is the returned dictionary, wrote tells
\* whether the file at path was written
save_processed_image(image, filename, format, emsg, F) ==
    LET extension == IF format = "JPEG" THEN ".jpg" ELSE ".png"
        filepath == [dir |-> PROCESSED_DIR, name |-> filename, ext |-> extension]
    IN  IF SaveRaises(image, format, F)
        THEN [wrote |-> FALSE, path |-> filepath,
              result |-> [success |-> FALSE, error |-> emsg]]
        ELSE [wrote |-> TRUE, path |-> filepath,
              result |-> [success |-> TRUE, filepath |-> filepath,
                          filename |-> [name |-> filename, ext |-> extension],
                          format |-> format, size |-> image.size]]

\* the directory after image.save wrote path once more
WriteFile(fs, path) ==
    (path :> (IF path \in DOMAIN fs THEN fs[path] + 1 ELSE 1)) @@ fs

\* render_processing_options: the four check boxes
ProcessingOptions ==
    [remove_background : BOOLEAN, enhance_quality : BOOLEAN,
     auto_resize : BOOLEAN, add_watermark : BOOLEAN]

\* format argument of the save call: 'PNG' if mode == 'RGBA' else 'JPEG'
SaveFormat(image) == IF image.mode = "RGBA" THEN "PNG" ELSE "JPEG"

\* render_image_processing after a successful process_for_platform, given
\* the results of the caption call and of the save call
RenderSuccess(processing_result, caption_result, saved, platform) ==
    [result |-> [success |-> TRUE,
                 processed_image |-> processing_result.image,
                 image_save_result |-> saved.result,
                 caption_result |-> caption_result,
                 platform |-> platform],
     called |-> TRUE, wrote |-> saved.wrote, path |-> saved.path,
     processing |-> processing_result]

\* render_image_processing from the result of process_for_platform on
RenderProcessed(processing_result, platform, voice_input, language, timestamp, model_ok, response, emsg, F) ==
    IF processing_result.success
    THEN RenderSuccess(
             processing_result,
             generate_product_caption(platform, language, voice_input, model_ok,
                                      response, F),
             save_processed_image(processing_result.image, <<platform, timestamp>>,
                                  SaveFormat(processing_result.image), emsg, F),
             platform)
    ELSE [result |-> [success |-> FALSE, error |-> processing_result.error],
          called |-> TRUE, wrote |-> FALSE,
          processing |-> processing_result]

\* render_image_processing.  result is the returned dictionary, called tells
\* whether process_for_platform was called and processing is its result,
\* wrote tells whether the file at path was written.
render_image_processing(image, platform, options, voice_input, language, clicked, timestamp, session_ok, model_ok, response, emsg, F) ==
    IF ~clicked
    THEN [result |-> [success |-> FALSE], called |-> FALSE, wrote |-> FALSE]
    ELSE RenderProcessed(
             process_for_platform(image, platform, options.remove_background,
                                  session_ok, F, emsg),
             platform, voice_input, language, timestamp, model_ok, response, emsg, F)

(***************************************************************************)
(* Inputs                                                                  *)
(***************************************************************************)
\* most library calls that raise within one request
MaxFaults == 2

\* most words of a spoken command
MaxWords == 2

\* longest prose preamble of a model response
MaxFiller == 230

SourceSizes == {<<4000, 3000>>, <<100, 100>>, <<1000, 1000>>, <<640, 480>>, <<300, 1081>>}

SourceModes == {"RGB", "RGBA", "P", "LA"}

\* decoded uploads: the history starts at the source picture
SourceImages ==
    {Img(s, m, <<PxOp("source", s[1], s[2])>>) : s \in SourceSizes, m \in SourceModes}

FaultSets == {F \in SUBSET FaultPoints : Cardinality(F) <= MaxFaults}

\* str(e) of the exception that ends a request
ErrorTexts == {"", "image file is truncated"}

UnknownPlatform == "etsy"

UnknownLanguage == "fr"

PlatformValues == Platforms \cup {UnknownPlatform}

LanguageValues == SupportedLanguages \cup {UnknownLanguage}

UserInputs == {<<>>, t_clay_pot}

RECURSIVE JoinFrom(_, _, _)
JoinFrom(parts, sep, i) ==
    IF i > Len(parts) THEN <<>>
    ELSE IF i = Len(parts) THEN parts[i]
    ELSE parts[i] \o sep \o JoinFrom(parts, sep, i + 1)

\* sep.join(parts)
Join(parts, sep) == JoinFrom(parts, sep, 1)

\* n characters of prose without line breaks
Filler(n) == [i \in 1..n |-> 97 + (i % 26)]

FillerLens == {0, 7, CAPTION_LIMIT, CAPTION_LIMIT + 1, MaxFiller}

CaptionLineChoices == {<<>>, <<t_caption_empty>>, <<t_caption_line>>}

HashtagLineChoices == {<<>>, <<HASHTAGS_PREFIX>>, <<t_hashtags_line>>, <<t_hashtags_plain>>}

DescriptionLineChoices == {<<>>, <<t_description_line>>}

\* texts a model can answer: an optional preamble and the optional lines
ResponseTexts ==
    {Join((IF n = 0 THEN <<>> ELSE <<Filler(n)>>) \o c \o h \o d, <<NEWLINE>>) :
        n \in FillerLens, c \in CaptionLineChoices,
        h \in HashtagLineChoices, d \in DescriptionLineChoices}

\* outcomes of model.generate_content(...) and response.text
Responses ==
    {[raises |-> TRUE, text |-> <<>>]} \cup
    {[raises |-> FALSE, text |-> t] : t \in ResponseTexts}

CaptionFaultSets == SUBSET {"encode", "parse"}

VoiceWords ==
    {w_Selling, w_INSTAGRAM, w_share, w_Insta, w_hello, w_Background,
     w_whatsapp, w_amazon_hi, w_share_hi, w_improve_hi}

VoiceTexts ==
    {t_scenario} \cup
    {Join(ws, <<32>>) : ws \in UNION {[1..n -> VoiceWords] : n \in 0..MaxWords}}

VoiceFaultSets == SUBSET {"lower"}

WhiteFaultSets == SUBSET {"compose", "convert"}

\* byte lengths of uploads, around the limit of 10 MiB
UploadBytes ==
    {1, 2048, MAX_IMAGE_SIZE_MB * MEBIBYTE - 1, MAX_IMAGE_SIZE_MB * MEBIBYTE,
     MAX_IMAGE_SIZE_MB * MEBIBYTE + 1}

\* formats Image.open detects
UploadFormats == {f_JPEG, f_PNG, f_WEBP, f_GIF, f_MPO}

\* uploaded files: those Image.open identifies and those on which it raises
UploadFiles ==
    {[bytes |-> n, decodes |-> TRUE, format |-> f, size |-> <<640, 480>>, mode |-> m] :
        n \in UploadBytes, f \in UploadFormats, m \in {"RGB", "RGBA"}}
    \cup {[bytes |-> n, decodes |-> FALSE, format |-> <<>>, size |-> <<0, 0>>,
            mode |-> ""] : n \in UploadBytes}

\* images handed to resize_image: the uploads, the 200x200 test image and a
\* 300x200 picture with alpha
ResizeImages ==
    SourceImages \cup {Img(<<200, 200>>, "RGB", <<PxOp("source", 200, 200)>>),
                       Img(<<300, 200>>, "RGBA", <<PxOp("source", 300, 200)>>)}

\* sizes asked of resize_image: the platform sizes and those of the test
ResizeSizes ==
    {PLATFORM_SIZES[p] : p \in Platforms} \cup {<<100, 100>>, <<150, 100>>}

ResizeFaultSets == SUBSET {"thumbnail", "canvas", "resize"}

EnhanceFaultSets ==
    {F \in SUBSET {"brightness", "contrast", "sharpen", "thumbnail", "canvas"} :
        Cardinality(F) <= MaxFaults}

\* most writes to the processed_images directory in one session
MaxRuns == 2

UIImages ==
    {Img(<<4000, 3000>>, m, <<PxOp("source", 4000, 3000)>>) : m \in SourceModes}
    \cup {Img(<<100, 100>>, "RGB", <<PxOp("source", 100, 100)>>)}

UILanguages == {"hi"}

UIResponses ==
    {[raises |-> TRUE, text |-> <<>>],
     [raises |-> FALSE, text |-> Join(<<t_caption_line, t_hashtags_line>>, <<NEWLINE>>)]}

UIFaultSets == {{}, {"copy"}, {"rembg"}, {"brightness"}, {"write"}}

(***************************************************************************)
(* State machine: one call of an entry point at a time                     *)
(***************************************************************************)
\* int(time.time()) when the session state was initialised
SessionStart == 0

\* most browser sessions whose script threads run at the same time
MaxThreads == 2

\* the script threads of the browser sessions of one server process
Threads == 1..MaxThreads

\* a thread that is not inside remove_background
ThreadIdle == [pc |-> "idle", image |-> <<>>, result |-> <<>>]

\* the items Config.validate_config requires
RequiredConfig ==
    {"GEMINI_API_KEY", "GOOGLE_APPLICATION_CREDENTIALS", "GOOGLE_CLOUD_PROJECT_ID"}

\* a page script that has not started, under a configuration
MainStart(config) == [pc |-> "start", config |-> config, directories |-> FALSE]

Init ==
    /\ rembg_session \in BOOLEAN
    /\ model \in BOOLEAN
    /\ op = "idle"
    /\ args = <<>>
    /\ ret = <<>>
    /\ session = [processing_timestamp |-> SessionStart]
    /\ files = <<>>
    /\ caller_image = <<>>
    /\ threads = [t \in Threads |-> ThreadIdle]
    /\ main = MainStart(RequiredConfig)

\* a caller invokes image_processor.process_for_platform
ProcessForPlatform ==
    /\ op = "idle"
    /\ \E image \in SourceImages, platform \in Platforms, remove_bg \in BOOLEAN,
          F \in FaultSets, emsg \in ErrorTexts :
          /\ args' = [image |-> image, platform |-> platform, remove_bg |-> remove_bg,
                      F |-> F, emsg |-> emsg]
          /\ ret' = process_for_platform(image, platform, remove_bg, rembg_session, F, emsg)
          /\ caller_image' = process_for_platform_arg(image, platform, remove_bg,
                                                      rembg_session, F)
    /\ op' = "process_for_platform"
    /\ UNCHANGED <<rembg_session, model, session, files, threads, main>>

\* a caller invokes ai_service.generate_product_caption
GenerateProductCaption ==
    /\ op = "idle"
    /\ \E platform \in PlatformValues, language \in LanguageValues,
          user_input \in UserInputs, response \in Responses, F \in CaptionFaultSets :
          /\ args' = [platform |-> platform, language |-> language,
                      user_input |-> user_input, response |-> response, F |-> F]
          /\ ret' = generate_product_caption(platform, language, user_input, model,
                                             response, F)
    /\ op' = "generate_product_caption"
    /\ UNCHANGED <<rembg_session, model, session, files, caller_image, threads, main>>

\* the fallback generator on its own
FallbackCaption ==
    /\ op = "idle"
    /\ \E platform \in PlatformValues, language \in LanguageValues,
          user_input \in UserInputs :
          /\ args' = [platform |-> platform, language |-> language,
                      user_input |-> user_input]
          /\ ret' = _fallback_caption(platform, language, user_input)
    /\ op' = "_fallback_caption"
    /\ UNCHANGED <<rembg_session, model, session, files, caller_image, threads, main>>

\* a caller invokes ai_service.analyze_voice_command
AnalyzeVoiceCommand ==
    /\ op = "idle"
    /\ \E voice_text \in VoiceTexts, language \in SupportedLanguages,
          F \in VoiceFaultSets :
          /\ args' = [voice_text |-> voice_text, language |-> language, F |-> F]
          /\ ret' = analyze_voice_command(voice_text, language, F)
    /\ op' = "analyze_voice_command"
    /\ UNCHANGED <<rembg_session, model, session, files, caller_image, threads, main>>

\* a caller invokes image_processor.add_white_background
AddWhiteBackground ==
    /\ op = "idle"
    /\ \E image \in SourceImages, F \in WhiteFaultSets :
          /\ args' = [image |-> image, F |-> F]
          /\ ret' = add_white_background(image, F)
          /\ caller_image' = image
    /\ op' = "add_white_background"
    /\ UNCHANGED <<rembg_session, model, session, files, threads, main>>

\* a caller invokes image_processor.resize_image
ResizeImage ==
    /\ op = "idle"
    /\ \E image \in ResizeImages, size \in ResizeSizes, maintain_aspect \in BOOLEAN,
          F \in ResizeFaultSets :
          /\ args' = [image |-> image, size |-> size,
                      maintain_aspect |-> maintain_aspect, F |-> F]
          /\ ret' = resize_image(image, size, maintain_aspect, F)
          /\ caller_image' = ret'.arg
    /\ op' = "resize_image"
    /\ UNCHANGED <<rembg_session, model, session, files, threads, main>>

\* a caller invokes image_processor.enhance_image
EnhanceImage ==
    /\ op = "idle"
    /\ \E image \in SourceImages, platform \in PlatformValues, F \in EnhanceFaultSets :
          /\ args' = [image |-> image, platform |-> platform, F |-> F]
          /\ ret' = [ret |-> enhance_image(image, platform, F)]
          /\ caller_image' = enhance_image_arg(image, platform, F)
    /\ op' = "enhance_image"
    /\ UNCHANGED <<rembg_session, model, session, files, threads, main>>

\* a caller invokes image_processor.remove_background and then asks
\* image_processor.is_available()
RemoveBackground ==
    /\ op = "idle"
    /\ \E image \in SourceImages, F \in SUBSET {"rembg"}, cv2_ok \in BOOLEAN :
          /\ args' = [image |-> image, F |-> F, cv2_ok |-> cv2_ok]
          /\ ret' = [ret |-> remove_background(image, rembg_session, F),
                     available |-> is_available(rembg_session, cv2_ok)]
          /\ caller_image' = image
    /\ op' = "remove_background"
    /\ UNCHANGED <<rembg_session, model, session, files, threads, main>>

\* the upload component invokes image_processor.validate_image
ValidateImage ==
    /\ op = "idle"
    /\ \E image_file \in UploadFiles :
          /\ args' = [image_file |-> image_file]
          /\ ret' = validate_image(image_file)
    /\ op' = "validate_image"
    /\ UNCHANGED <<rembg_session, model, session, files, caller_image, threads, main>>

\* the caller has taken the result; the services are ready for the next call
Return ==
    /\ op # "idle"
    /\ op' = "idle"
    /\ args' = <<>>
    /\ ret' = <<>>
    /\ caller_image' = <<>>
    /\ UNCHANGED <<rembg_session, model, session, files, threads, main>>

\* sum of the write counts of a directory
RECURSIVE TotalWrites(_)
TotalWrites(fs) ==
    IF DOMAIN fs = {} THEN 0
    ELSE LET p == CHOOSE q \in DOMAIN fs : TRUE
         IN  fs[p] + TotalWrites([q \in DOMAIN fs \ {p} |-> fs[q]])

\* render_image_processing runs in the page script
RenderCall ==
    /\ op = "idle"
    /\ TotalWrites(files) < MaxRuns
    /\ \E image \in UIImages, platform \in Platforms, options \in ProcessingOptions,
          language \in UILanguages, clicked \in BOOLEAN, response \in UIResponses,
          F \in UIFaultSets :
          /\ args' = [image |-> image, platform |-> platform, options |-> options,
                      language |-> language, clicked |-> clicked,
                      response |-> response, F |-> F]
          /\ ret' = render_image_processing(image, platform, options, <<>>, language,
                        clicked, session.processing_timestamp, rembg_session, model,
                        response, "error", F)
          /\ caller_image' = IF clicked
                             THEN process_for_platform_arg(image, platform,
                                      options.remove_background, rembg_session, F)
                             ELSE image
    /\ files' = IF ret'.wrote THEN WriteFile(files, ret'.path) ELSE files
    /\ op' = "render_image_processing"
    /\ UNCHANGED <<rembg_session, model, session, threads>>

\* one run of the page script reaches render_image_processing
RenderImageProcessing == RenderCall /\ UNCHANGED main

Next ==
    \/ ProcessForPlatform
    \/ GenerateProductCaption
    \/ FallbackCaption
    \/ AnalyzeVoiceCommand
    \/ AddWhiteBackground
    \/ ResizeImage
    \/ EnhanceImage
    \/ RemoveBackground
    \/ ValidateImage
    \/ Return

Spec == Init /\ [][Next]_vars

\* the page: processing runs of one browser session
NextUI ==
    \/ RenderImageProcessing
    \/ Return

SpecUI == Init /\ [][NextUI]_vars

(***************************************************************************)
(* The page script: main() of app.py, run again on every interaction       *)
(***************************************************************************)
\* Config.validate_config that looks at the API key only
validate_config_key_only(config) == {"GEMINI_API_KEY"} \ config

\* Config.validate_config: the required items that are missing
validate_config(config) == RequiredConfig \ config

\* check_configuration
check_configuration(config) == validate_config(config) = {}

\* initialize_session_state: a key is set only when it is absent
initialize_session_state(session_state) ==
    IF "processing_timestamp" \in DOMAIN session_state THEN session_state
    ELSE [processing_timestamp |-> SessionStart]

\* the services are constructed at import, a browser session opens with an
\* empty session state: the AI model exists only with an API key
InitMain ==
    /\ rembg_session \in BOOLEAN
    /\ \E config \in SUBSET RequiredConfig :
          /\ main = MainStart(config)
          /\ model \in {FALSE, "GEMINI_API_KEY" \in config}
    /\ op = "idle"
    /\ args = <<>>
    /\ ret = <<>>
    /\ session = <<>>
    /\ files = <<>>
    /\ caller_image = <<>>
    /\ threads = [t \in Threads |-> ThreadIdle]

\* main calls initialize_session_state
MainInitialize ==
    /\ main.pc = "start"
    /\ session' = initialize_session_state(session)
    /\ main' = [main EXCEPT !.pc = "check"]
    /\ UNCHANGED <<rembg_session, model, op, args, ret, files, caller_image, threads>>

\* main calls check_configuration and st.stop() when it returns False; the
\* stop exception is not an Exception, so nothing of main runs after it
MainCheckConfiguration ==
    /\ main.pc = "check"
    /\ main' = [main EXCEPT !.pc = IF check_configuration(main.config)
                                   THEN "directories" ELSE "stopped"]
    /\ UNCHANGED <<rembg_session, model, op, args, ret, session, files, caller_image,
                   threads>>

\* main calls Config.create_directories, then renders header and sidebar
MainCreateDirectories ==
    /\ main.pc = "directories"
    /\ main' = [main EXCEPT !.pc = "workflow", !.directories = TRUE]
    /\ UNCHANGED <<rembg_session, model, op, args, ret, session, files, caller_image,
                   threads>>

\* render_main_workflow with an uploaded image: render_image_processing runs
MainWorkflow ==
    /\ main.pc = "workflow"
    /\ RenderCall
    /\ main' = [main EXCEPT !.pc = "footer"]

\* render_main_workflow without an upload: nothing is processed
MainWorkflowNoUpload ==
    /\ main.pc = "workflow"
    /\ main' = [main EXCEPT !.pc = "footer"]
    /\ UNCHANGED <<rembg_session, model, op, args, ret, session, files, caller_image,
                   threads>>

\* main renders the footer and the script ends
MainFooter ==
    /\ main.pc = "footer"
    /\ main' = [main EXCEPT !.pc = "done"]
    /\ UNCHANGED <<rembg_session, model, op, args, ret, session, files, caller_image,
                   threads>>

\* an interaction of the user runs the script again, in the same process and
\* with the same session state
MainRerun ==
    /\ main.pc \in {"done", "stopped"}
    /\ main' = [main EXCEPT !.pc = "start"]
    /\ op' = "idle"
    /\ args' = <<>>
    /\ ret' = <<>>
    /\ caller_image' = <<>>
    /\ UNCHANGED <<rembg_session, model, session, files, threads>>

NextMain ==
    \/ MainInitialize
    \/ MainCheckConfiguration
    \/ MainCreateDirectories
    \/ MainWorkflow
    \/ MainWorkflowNoUpload
    \/ MainFooter
    \/ MainRerun

SpecMain == InitMain /\ [][NextMain]_vars

(***************************************************************************)
(* Script threads: every browser session runs the page script in a thread  *)
(* of its own, and all of them call the one module-level image_processor.  *)
(***************************************************************************)
ThreadImages ==
    {Img(<<100, 100>>, m, <<PxOp("source", 100, 100)>>) : m \in {"RGB", "P"}}

\* the frame of a step of a thread
ThreadFrame ==
    UNCHANGED <<rembg_session, model, op, args, ret, session, files, caller_image, main>>

\* thread t calls image_processor.remove_background(image)
RemoveEnter(t) ==
    /\ threads[t].pc = "idle"
    /\ \E image \in ThreadImages :
          threads' = [threads EXCEPT ![t] = [pc |-> "check", image |-> image,
                                             result |-> <<>>]]
    /\ ThreadFrame

\* if not REMBG_AVAILABLE or not self.rembg_session: return image
RemoveCheck(t) ==
    /\ threads[t].pc = "check"
    /\ threads' = [threads EXCEPT ![t] =
                      IF rembg_session THEN [@ EXCEPT !.pc = "encode"]
                      ELSE [@ EXCEPT !.pc = "done", !.result = threads[t].image]]
    /\ ThreadFrame

\* image.save(img_byte_arr, format='PNG'); then the thread enters
\* remove(img_byte_arr, session=self.rembg_session)
RemoveEncode(t) ==
    /\ threads[t].pc = "encode"
    /\ \E raises \in BOOLEAN :
          threads' = [threads EXCEPT ![t] =
                         IF raises THEN [@ EXCEPT !.pc = "done", !.result = threads[t].image]
                         ELSE [@ EXCEPT !.pc = "remove"]]
    /\ ThreadFrame

\* the call on the shared session returns or raises
RemoveCall(t) ==
    /\ threads[t].pc = "remove"
    /\ \E raises \in BOOLEAN :
          threads' = [threads EXCEPT ![t] =
                         IF raises THEN [@ EXCEPT !.pc = "done", !.result = threads[t].image]
                         ELSE [@ EXCEPT !.pc = "decode"]]
    /\ ThreadFrame

\* result_image = Image.open(io.BytesIO(output)); return result_image
RemoveDecode(t) ==
    /\ threads[t].pc = "decode"
    /\ \E raises \in BOOLEAN :
          threads' = [threads EXCEPT ![t] =
                         [@ EXCEPT !.pc = "done",
                                   !.result = remove_background(threads[t].image, TRUE,
                                                  IF raises THEN {"rembg"} ELSE {})]]
    /\ ThreadFrame

\* the caller takes the result
RemoveExit(t) ==
    /\ threads[t].pc = "done"
    /\ threads' = [threads EXCEPT ![t] = ThreadIdle]
    /\ ThreadFrame

NextThreads ==
    \E t \in Threads :
        \/ RemoveEnter(t)
        \/ RemoveCheck(t)
        \/ RemoveEncode(t)
        \/ RemoveCall(t)
        \/ RemoveDecode(t)
        \/ RemoveExit(t)

SpecThreads == Init /\ [][NextThreads]_vars

(***************************************************************************)
(* Properties                                                              *)
(***************************************************************************)
IsProcess == op = "process_for_platform"

IsCaption == op = "generate_product_caption"

IsRender == op = "render_image_processing" /\ ret.called

\* the content history has an entry of one of the named operations
HasOp(image, names) == \E i \in 1..Len(image.px) : image.px[i].name \in names

\* the rembg call of the request was made and returned
RemovalRan == args.remove_bg /\ rembg_session /\ "rembg" \notin args.F

\* the row of the fallback table for a platform and a language, with the
\* defaults amazon and en
FallbackRow(platform, language) ==
    fallback_captions[IF platform \in {"amazon", "instagram", "whatsapp"}
                      THEN platform ELSE "amazon"]
                     [IF language \in {"hi", "mr", "en"} THEN language ELSE "en"]

\* the three content fields of a caption bundle are those of a table row
IsRow(bundle, row) ==
    /\ bundle.caption = row.caption
    /\ bundle.hashtags = row.hashtags
    /\ bundle.description = row.description

\* s is a prefix of t
IsPrefix(s, t) == Len(s) <= Len(t) /\ SubSeq(t, 1, Len(s)) = s

\* C1: whenever process_for_platform returns success=True, the returned
\* image's size and the reported size equal Config.PLATFORM_SIZES[platform],
\* on every path, degraded ones included.
C1_SizeInvariant ==
    (IsProcess /\ ret.success) =>
        /\ ret.image.size = PLATFORM_SIZES[args.platform]
        /\ ret.size = PLATFORM_SIZES[args.platform]

\* C2: when background removal is requested and the adapter is unavailable
\* or fails, the request still succeeds and reports background_removed=False;
\* background_removed is True only when the removal step ran successfully.
C2_BackgroundRemovedTruthful ==
    IsProcess =>
        /\ (args.remove_bg /\ ~RemovalRan /\ args.F \subseteq {"rembg"})
              => (ret.success /\ ~ret.background_removed)
        /\ (ret.success /\ ret.background_removed) => RemovalRan

\* C3 as claimed: a failed result of process_for_platform has a populated
\* error string and carries no image.
C3_FailureCarriesNoImage ==
    (IsProcess /\ ~ret.success) => (ret.error # "" /\ "image" \notin DOMAIN ret)

\* C3 as amended: a failed result of process_for_platform has success=False,
\* the text of the exception as error, the requested platform, and as image
\* the caller's input image itself, never a partially processed one.
C3_FailureCarriesInput ==
    (IsProcess /\ ~ret.success) =>
        /\ DOMAIN ret = {"success", "error", "image", "platform"}
        /\ ret.error = args.emsg
        /\ ret.image = args.image
        /\ ret.platform = args.platform

\* a request failed after background removal had changed the working image
C3_Witness ==
    IsProcess /\ ~ret.success /\ RemovalRan /\ "copy" \notin args.F

\* C4: the enhancement stage (brightness, contrast, sharpen) is applied in a
\* processing request if and only if the request's enhance_quality option is
\* true.
C4_EnhanceIffRequested ==
    (IsRender /\ ret.processing.success /\ args.F = {} /\ args.image.mode # "P") =>
        (HasOp(ret.processing.image, {"brightness", "contrast", "unsharp"})
            <=> args.options.enhance_quality)

\* C5: the resize-to-platform step is applied if and only if the request's
\* auto_resize option is true; with auto_resize=false and no background
\* removal the output has the input's size.
C5_ResizeIffRequested ==
    (IsRender /\ ret.processing.success /\ args.F = {} /\ args.image.mode # "P") =>
        /\ HasOp(ret.processing.image, {"thumbnail", "paste", "resize"})
              <=> args.options.auto_resize
        /\ (~args.options.auto_resize /\ ~args.options.remove_background)
              => ret.processing.image.size = args.image.size

\* C6: _fallback_caption is total: for every platform and language value it
\* returns ai_generated=False and a non-empty hashtag list, and its content
\* is the row of the platform (amazon when unrecognized) and the language
\* (en when unsupported).
C6_FallbackTotal ==
    op = "_fallback_caption" =>
        /\ ret.success
        /\ ret.ai_generated = FALSE
        /\ Len(ret.hashtags) > 0
        /\ IsRow(ret, FallbackRow(args.platform, args.language))
        /\ (args.platform = "instagram" /\ args.language = UnknownLanguage)
              => IsRow(ret, fallback_instagram_en)
        /\ (args.platform = UnknownPlatform /\ args.language = "mr")
              => IsRow(ret, fallback_amazon_mr)
        /\ (args.platform = "whatsapp" /\ args.language = "hi")
              => IsRow(ret, fallback_whatsapp_hi)

\* the fallback generator was asked for an unknown platform in an unknown language
C6_Witness ==
    /\ op = "_fallback_caption"
    /\ args.platform = UnknownPlatform
    /\ args.language = UnknownLanguage
    /\ IsRow(ret, fallback_amazon_en)

\* a response none of whose lines carries one of the three prefixes
Malformed(text) ==
    LET lines == SplitLines(Strip(text))
    IN  \A i \in 1..Len(lines) :
            /\ ~StartsWith(Strip(lines[i]), CAPTION_PREFIX)
            /\ ~StartsWith(Strip(lines[i]), HASHTAGS_PREFIX)
            /\ ~StartsWith(Strip(lines[i]), DESCRIPTION_PREFIX)

\* C7: whenever the generative model is absent or the model call fails for
\* any reason (exception, malformed response), generate_product_caption
\* returns ai_generated=False with exactly the fallback row of the request's
\* platform and language.
C7_FailureGivesFallback ==
    (IsCaption /\ (\/ ~model
                   \/ args.response.raises
                   \/ args.F # {}
                   \/ Malformed(args.response.text))) =>
        /\ ret.ai_generated = FALSE
        /\ IsRow(ret, FallbackRow(args.platform, args.language))

\* C8: every caption bundle returned by generate_product_caption with
\* success=True has a non-empty hashtag list, for every model response.
C8_HashtagsNonEmpty ==
    (IsCaption /\ ret.success) => Len(ret.hashtags) > 0

\* the call parsed a model response and found no caption in it
ParsedEmptyCaption ==
    /\ IsCaption
    /\ "full_response" \in DOMAIN ret
    /\ ParseLines(SplitLines(Strip(args.response.text)), 1,
                  [caption |-> <<>>, hashtags |-> <<>>, description |-> <<>>]).caption = <<>>

\* C9 as claimed: when parsing yields an empty caption, the caption returned
\* is a prefix of the raw response of at most 200 characters.
C9_CaptionIsTruncation ==
    ParsedEmptyCaption =>
        /\ Len(ret.caption) <= 200
        /\ IsPrefix(ret.caption, args.response.text)

\* C9 as amended: when parsing yields an empty caption, the caption returned
\* is the raw response itself when that has at most 200 characters, and
\* otherwise its first 200 characters followed by '...', 203 characters.
C9_CaptionIsTruncationWithEllipsis ==
    ParsedEmptyCaption =>
        LET text == args.response.text
        IN  /\ Len(text) <= 200 => ret.caption = text
            /\ Len(text) > 200 =>
                  /\ Len(ret.caption) = 203
                  /\ SubSeq(ret.caption, 1, 200) = SubSeq(text, 1, 200)
                  /\ SubSeq(ret.caption, 201, 203) = <<46, 46, 46>>

\* a response of more than 200 characters without a caption was parsed
C9_Witness == ParsedEmptyCaption /\ Len(args.response.text) > 200

\* C10: analyze_voice_command yields the first platform, in the order
\* amazon, instagram, whatsapp, one of whose keywords occurs in the
\* lower-cased text, and amazon when no keyword of any platform occurs.
C10_FirstMatchWins ==
    (op = "analyze_voice_command" /\ "lower" \notin args.F) =>
        LET text == Lower(args.voice_text)
            has(p) == \E j \in 1..Len(platform_keywords[p]) :
                          Contains(text, platform_keywords[p][j])
        IN  /\ has("amazon") => ret.platform = "amazon"
            /\ (~has("amazon") /\ has("instagram")) => ret.platform = "instagram"
            /\ (~has("amazon") /\ ~has("instagram") /\ has("whatsapp"))
                  => ret.platform = "whatsapp"
            /\ (~has("amazon") /\ ~has("instagram") /\ ~has("whatsapp"))
                  => ret.platform = "amazon"
            /\ args.voice_text = Join(<<w_INSTAGRAM, w_Selling>>, <<32>>)
                  => ret.platform = "amazon"
            /\ args.voice_text = Join(<<w_share, w_Insta>>, <<32>>)
                  => ret.platform = "instagram"

\* a command naming instagram first and an amazon keyword after it was analysed
C10_Witness ==
    /\ op = "analyze_voice_command"
    /\ "lower" \notin args.F
    /\ args.voice_text = Join(<<w_INSTAGRAM, w_Selling>>, <<32>>)
    /\ ret.platform = "amazon"

\* the call of analyze_voice_command ran its try block to the end
VoiceMatched == op = "analyze_voice_command" /\ "lower" \notin args.F

\* C11: the enhancement flag of analyze_voice_command comes from its own
\* scan: remove_background is true iff the lower-cased text contains an
\* enhancement keyword, whichever platform matched; the text "remove
\* background and make it for instagram" yields platform instagram,
\* remove_background true and confidence 0.8.
C11_EnhanceScanSeparate ==
    VoiceMatched =>
        LET text == Lower(args.voice_text)
        IN  /\ ret.remove_background
                  <=> \E j \in 1..Len(enhance_keywords) : Contains(text, enhance_keywords[j])
            /\ args.voice_text = w_Background => ret.remove_background
            /\ args.voice_text = w_INSTAGRAM => ~ret.remove_background
            /\ args.voice_text = t_scenario =>
                  /\ ret.platform = "instagram"
                  /\ ret.remove_background
                  /\ ret.confidence = 8

\* a command with an enhancement keyword and no platform keyword was analysed
C11_Witness ==
    /\ VoiceMatched
    /\ args.voice_text = w_Background
    /\ ret.remove_background
    /\ \A i \in 1..Len(PlatformOrder) :
           ~AnyKeyword(Lower(args.voice_text), platform_keywords[PlatformOrder[i]])

\* C12: analyze_voice_command always returns an intent, and its confidence
\* is 0.8 when the intent comes from the keyword scans and 0.5 exactly when
\* an internal error forced the default intent, whose platform is amazon;
\* no other confidence is returned.
C12_ConfidenceTwoConstants ==
    op = "analyze_voice_command" =>
        /\ DOMAIN ret = {"platform", "remove_background", "original_text",
                         "language", "confidence"}
        /\ ret.confidence \in {8, 5}
        /\ ret.confidence = 5 <=> "lower" \in args.F
        /\ "lower" \in args.F => (ret.platform = "amazon" /\ ret.remove_background)
        /\ ret.original_text = args.voice_text
        /\ ret.language = args.language

\* an internal error forced the default intent for a command naming instagram
C12_Witness ==
    /\ op = "analyze_voice_command"
    /\ "lower" \in args.F
    /\ args.voice_text = t_scenario
    /\ ret.confidence = 5

\* C13: add_white_background always returns an image of mode RGB with the
\* size of its input, for every input mode and also when its try block
\* raised.
C13_WhiteBackgroundOpaque ==
    op = "add_white_background" =>
        /\ ~ret.raised
        /\ ret.ret.mode = "RGB"
        /\ ret.ret.size = args.image.size

\* a call of resize_image in which no library call raised
ResizeClean == op = "resize_image" /\ args.F = {}

\* C14: aspect-preserving resizing is idempotent: resizing the result of
\* resize_image(img, S, True) to S again gives an image of the same size,
\* mode and content.
C14_ResizeIdempotent ==
    (ResizeClean /\ args.maintain_aspect) =>
        resize_image(ret.ret, args.size, TRUE, {}).ret = ret.ret

\* a 4000x3000 picture was scaled and padded to 1000x1000
C14_Witness ==
    /\ ResizeClean
    /\ args.maintain_aspect
    /\ args.image.size = <<4000, 3000>>
    /\ args.size = <<1000, 1000>>
    /\ HasOp(ret.ret, {"thumbnail"})
    /\ HasOp(ret.ret, {"paste"})

\* C15: with maintain_aspect=True resize_image scales the source by
\* min(targetW/srcW, targetH/srcH), for larger and smaller sources alike: the
\* scaled picture has the target length in the limiting dimension and the
\* proportional length, within rounding, in the other.
C15_ScaleByMinFactor ==
    (ResizeClean /\ args.maintain_aspect) =>
        LET w == args.image.size[1]
            h == args.image.size[2]
            tw == args.size[1]
            th == args.size[2]
            cw == ret.arg.size[1]
            ch == ret.arg.size[2]
        IN  IF tw * h <= th * w
            THEN cw = tw /\ AbsDiff(ch * w, h * tw) < w
            ELSE ch = th /\ AbsDiff(cw * h, w * th) < h

\* C16: when no library call raises, resize_image returns an image of
\* exactly the requested size, with maintain_aspect=True and with
\* maintain_aspect=False, whatever the source dimensions.
C16_ExactSize ==
    ResizeClean => ret.ret.size = args.size

\* a 300x1081 picture was resized to 150x100 without keeping its aspect
C16_Witness ==
    /\ ResizeClean
    /\ ~args.maintain_aspect
    /\ args.image.size = <<300, 1081>>
    /\ args.size = <<150, 100>>
    /\ ret.ret.size = <<150, 100>>

\* C17: resize_image is pure: after a call with any arguments the image
\* object the caller passed has the size and content it had before.
C17_ResizePure ==
    op = "resize_image" => caller_image = args.image

\* C18: process_for_platform never changes the caller's image: for every
\* platform, every remove_bg value and every combination of stage successes
\* and failures, the image passed in has the same size, mode and content
\* after the call as before it.
C18_CallerImageUntouched ==
    IsProcess => caller_image = args.image

\* a request scaled a 4000x3000 picture down in place and returned success,
\* with no stage before the enhancement giving it a new working object
C18_Witness ==
    /\ IsProcess
    /\ ret.success
    /\ args.image.size = <<4000, 3000>>
    /\ args.image.mode = "RGB"
    /\ ~args.remove_bg
    /\ HasOp(ret.image, {"thumbnail"})
    /\ caller_image = args.image

\* position of a library operation in the pipeline of process_for_platform
StageRank(name) ==
    CASE name = "source" -> 0
      [] name = "rembg" -> 1
      [] name \in {"white", "convert"} -> 2
      [] name = "brightness" -> 3
      [] name = "contrast" -> 4
      [] name = "unsharp" -> 5
      [] name = "thumbnail" -> 6
      [] name = "paste" -> 7
      [] OTHER -> 8

\* the names of the operations of a content history, in order
OpNames(px) == [i \in 1..Len(px) |-> px[i].name]

\* C19: within one request the stages run in the order background removal,
\* white-background compositing (amazon only), brightness x1.05, contrast
\* x1.10, unsharp-mask sharpen, resize to the platform size: the content of
\* the result is the input's content followed by the operations of the
\* stages that ran, each on the output of the one before, in that order.
C19_StageOrder ==
    (IsProcess /\ ret.success) =>
        LET px == ret.image.px
        IN  /\ IsPrefix(args.image.px, px)
            /\ \A i \in 1..Len(px), j \in 1..Len(px) :
                   i < j => StageRank(px[i].name) < StageRank(px[j].name)
            /\ \A i \in 1..Len(px) :
                   /\ px[i].name = "rembg" => RemovalRan
                   /\ px[i].name \in {"white", "convert"} => args.platform = "amazon"
                   /\ px[i].name = "brightness" => (px[i].a = 105 /\ px[i].b = 100)
                   /\ px[i].name = "contrast" => (px[i].a = 110 /\ px[i].b = 100)
                   /\ px[i].name \in {"thumbnail", "paste"} =>
                          \E k \in 1..(i - 1) : px[k].name = "unsharp"
            /\ (RemovalRan /\ args.F = {} /\ args.platform = "amazon"
                   /\ args.image.size = <<4000, 3000>>) =>
                  OpNames(px) = <<"source", "rembg", "white", "brightness", "contrast",
                                  "unsharp", "thumbnail", "paste">>

\* an amazon request ran every stage on a 4000x3000 picture
C19_Witness ==
    /\ IsProcess
    /\ ret.success
    /\ RemovalRan
    /\ args.F = {}
    /\ args.platform = "amazon"
    /\ args.image.size = <<4000, 3000>>
    /\ Len(ret.image.px) = 8

\* C20: the format reported by a successful process_for_platform is PNG if
\* and only if the mode of the final image has an alpha channel, and JPEG
\* otherwise.
C20_FormatFollowsAlpha ==
    (IsProcess /\ ret.success) =>
        /\ ret.format \in {"PNG", "JPEG"}
        /\ ret.format = "PNG" <=> ret.image.mode \in {"RGBA", "LA"}

\* thread t is inside the call on the shared rembg session
InSession(t) == threads[t].pc = "remove"

\* C21: two requests that call remove_background on the process-wide
\* image_processor are never both inside the call on the shared rembg
\* session at the same time.
C21_SessionMutualExclusion ==
    \A t \in Threads, u \in Threads : (t # u) => ~(InSession(t) /\ InSession(u))

\* C22: no exception of the background-removal model, the image library or
\* the generative model leaves process_for_platform or
\* generate_product_caption: whatever raises, each returns a result
\* dictionary, a successful or failed processing result or a caption bundle.
C22_NoExceptionEscapes ==
    /\ IsProcess =>
          /\ "success" \in DOMAIN ret
          /\ ret.success \in BOOLEAN
          /\ ret.success =>
                DOMAIN ret = {"success", "image", "platform", "size",
                              "background_removed", "format"}
          /\ ~ret.success => DOMAIN ret = {"success", "error", "image", "platform"}
    /\ IsCaption =>
          /\ {"success", "ai_generated", "caption", "hashtags", "description"}
                \subseteq DOMAIN ret
          /\ ret.success

\* an amazon request in which the paste and the fallback conversion of the
\* white-background stage both raised ended as a failed result
C22_Witness ==
    /\ IsProcess
    /\ args.platform = "amazon"
    /\ {"compose", "convert"} \subseteq args.F
    /\ ~ret.success
    /\ ret.error = args.emsg

\* C23: validate_image returns valid=True, with the image, its size, format
\* and mode, exactly when the file has at most MAX_IMAGE_SIZE_MB mebibytes,
\* opens as an image and its detected format is in the supported list
\* whatever its case; otherwise it returns valid=False with an error and
\* does not raise; the read position is 0 after the size check.
C23_ValidateExactly ==
    op = "validate_image" =>
        LET f == args.image_file
            fmt == Lower(f.format)
            ok == /\ f.bytes <= 10 * 1048576
                  /\ f.decodes
                  /\ fmt \in {Lower(f_JPEG), Lower(f_PNG), Lower(f_WEBP),
                               <<106, 112, 103>>}
        IN  /\ ret.result.valid <=> ok
            /\ ret.result.valid =>
                  /\ {"image", "size", "format", "mode"} \subseteq DOMAIN ret.result
                  /\ ret.result.image.size = f.size
                  /\ ret.result.size = f.size
                  /\ ret.result.format = f.format
                  /\ ret.result.mode = f.mode
            /\ ~ret.result.valid =>
                  /\ DOMAIN ret.result = {"valid", "error"}
                  /\ ret.result.error # ""
            /\ ret.pos = 0

\* a PNG of exactly 10 MiB was accepted
C23_Witness ==
    /\ op = "validate_image"
    /\ args.image_file.bytes = 10 * 1048576
    /\ args.image_file.format = f_PNG
    /\ ret.result.valid

\* C24: whenever remove_background cannot remove the background, because
\* rembg was unavailable at startup or because the call failed, it returns
\* its input unchanged without raising and
\* is_available()['background_removal'] is false; basic_processing is
\* always true.
C24_FailureFlaggedUnavailable ==
    op = "remove_background" =>
        /\ (~rembg_session \/ "rembg" \in args.F) =>
              /\ ret.ret = args.image
              /\ caller_image = args.image
              /\ ~ret.available.background_removal
        /\ ret.available.basic_processing

\* a library call of the branch resize_image took raised
ResizeRaised ==
    /\ op = "resize_image"
    /\ IF args.maintain_aspect THEN args.F \cap {"thumbnail", "canvas"} # {}
       ELSE "resize" \in args.F

\* a call of the try block of enhance_image raised into its handler
EnhanceRaised ==
    /\ op = "enhance_image"
    /\ (BrightnessRaises(args.image, args.F) \/ "contrast" \in args.F
           \/ "sharpen" \in args.F)

\* C25: on any internal error enhance_image and resize_image each return
\* the image they were given, with the size, mode and content it had when
\* the call was made, and never raise.
C25_StageReturnsInputOnError ==
    /\ ResizeRaised => (ret.ret = args.image /\ caller_image = args.image)
    /\ EnhanceRaised => (ret.ret = args.image /\ caller_image = args.image)

\* where resize_image pasted the scaled picture on the canvas: the offsets
\* of the paste, (0, 0) when the picture replaced the whole canvas
PasteOffset(image) ==
    LET last == image.px[Len(image.px)]
    IN  IF last.name = "paste" THEN <<last.a, last.b>> ELSE <<0, 0>>

\* C26: in aspect-preserving resize the scaled picture is pasted at
\* (floor((targetW - scaledW)/2), floor((targetH - scaledH)/2)): it lies
\* inside the canvas and the two padding bands of each axis differ by at
\* most one pixel; when the source has the target's aspect ratio and is at
\* least as large as the target, both offsets are 0 and there is no band.
C26_CenteredPaste ==
    (ResizeClean /\ args.maintain_aspect) =>
        LET w == args.image.size[1]
            h == args.image.size[2]
            tw == args.size[1]
            th == args.size[2]
            cw == caller_image.size[1]
            ch == caller_image.size[2]
            x == PasteOffset(ret.ret)[1]
            y == PasteOffset(ret.ret)[2]
        IN  /\ 2 * x <= tw - cw /\ tw - cw < 2 * x + 2
            /\ 2 * y <= th - ch /\ th - ch < 2 * y + 2
            /\ x >= 0 /\ x + cw <= tw
            /\ y >= 0 /\ y + ch <= th
            /\ AbsDiff(x, tw - cw - x) <= 1
            /\ AbsDiff(y, th - ch - y) <= 1
            /\ (w * th = h * tw /\ w >= tw /\ h >= th) =>
                  (cw = tw /\ ch = th /\ x = 0 /\ y = 0)

\* a 4000x3000 picture was centred on a 1000x1000 canvas with bands of 125
\* pixels above and below
C26_Witness ==
    /\ ResizeClean
    /\ args.maintain_aspect
    /\ args.image.size = <<4000, 3000>>
    /\ args.size = <<1000, 1000>>
    /\ caller_image.size = <<1000, 750>>
    /\ PasteOffset(ret.ret) = <<0, 125>>

\* the image process_for_platform hands to enhance_image in the request
EnhanceInput ==
    LET nobg == IF args.remove_bg
                THEN remove_background(args.image, rembg_session, args.F)
                ELSE args.image
    IN  IF args.platform = "amazon" THEN add_white_background(nobg, args.F).ret
        ELSE nobg

\* a call of the enhancement proper raised in the request
EnhanceFailed ==
    BrightnessRaises(EnhanceInput, args.F) \/ "contrast" \in args.F
        \/ "sharpen" \in args.F

\* no stage of the request failed internally
NoStageFailed == args.F = {} /\ ~EnhanceFailed

\* the final resize of the request failed after the enhancement had run
FinalResizeFailed == ~EnhanceFailed /\ args.F \cap {"thumbnail", "canvas"} # {}

\* C27 as claimed: a process_for_platform run in which no stage fails
\* internally returns an opaque RGB image and reports JPEG, for every
\* platform and both remove_bg values; a PNG or RGBA result occurs only on a
\* run where the enhancement stage failed and returned its input.
C27_PngOnlyOnEnhanceFailure ==
    (IsProcess /\ ret.success) =>
        /\ NoStageFailed => (ret.image.mode = "RGB" /\ ret.format = "JPEG")
        /\ (ret.format = "PNG" \/ ret.image.mode = "RGBA") =>
              (EnhanceFailed /\ ret.image = EnhanceInput)

\* C27 as amended: a process_for_platform run in which no stage fails
\* internally returns an opaque RGB image and reports JPEG, for every
\* platform and both remove_bg values; a PNG or RGBA result occurs only on a
\* run where the enhancement failed and returned its input, or where the
\* final resize failed and returned the enhanced image without a canvas.
C27_PngOnlyOnStageFailure ==
    (IsProcess /\ ret.success) =>
        /\ NoStageFailed => (ret.image.mode = "RGB" /\ ret.format = "JPEG")
        /\ (ret.format = "PNG" \/ ret.image.mode = "RGBA") =>
              /\ ret.format = "PNG" /\ ret.image.mode = "RGBA"
              /\ \/ EnhanceFailed /\ ret.image = EnhanceInput
                 \/ /\ FinalResizeFailed
                    /\ HasOp(ret.image, {"unsharp"})
                    /\ ~HasOp(ret.image, {"paste"})

\* a request whose canvas could not be made returned the enhanced RGBA
\* image as PNG
C27_Witness ==
    /\ IsProcess
    /\ ret.success
    /\ ret.format = "PNG"
    /\ "canvas" \in args.F
    /\ HasOp(ret.image, {"unsharp"})

\* the content of the bundle was taken from the fallback table: the model
\* was absent, a call before the parsing raised, or the parsing raised and
\* _parse_ai_response substituted the fallback
FromFallbackTable ==
    \/ ~model
    \/ "encode" \in args.F
    \/ CreatePromptRaises(args.platform, args.language)
    \/ args.response.raises
    \/ "parse" \in args.F

\* C28: the ai_generated flag is truthful: whenever the caption, hashtags
\* and description returned by generate_product_caption come from the
\* fallback table rather than from the model's response, also when the
\* parsing raised and _parse_ai_response substituted the fallback, the
\* bundle has ai_generated=False.
C28_AiGeneratedTruthful ==
    (IsCaption /\ FromFallbackTable) => ret.ai_generated = FALSE

\* C29: within one UI session two successful processing runs never write
\* their processed image to the same file path, so a later run never
\* overwrites the file an earlier entry of processing_results refers to,
\* also when both runs are for the same platform.
C29_NoPathWrittenTwice ==
    \A path \in DOMAIN files : files[path] <= 1

====
